---- MODULE Spec2Model ----
(***************************************************************************)
(* A model of HybridWebSocket (src/cpp/HybridWebSocket.cpp): the           *)
(* connection state, the send queue with its byte counter, the I/O service *)
(* loop, the libwebsockets callback, and the caller-side operations        *)
(* connect, send / sendBinary, close and cleanup, each cut at the points   *)
(* where another thread can observe or change the shared fields.           *)
(***************************************************************************)
EXTENDS Integers, Sequences, FiniteSets, TLC

\* ------------------------------------------------------------------ bounds
\* Sends, connects that create a context, and inbound data events explored.
\* SpecQueue: sends explored, with payload lengths 1..MaxLen.
MaxSends == 3
MaxLen == 2
\* SpecOverlap: contexts and sessions the transport engine creates.
MaxConnects == 2
\* Spec: sends (of lengths 1..LifeLen), contexts and sessions created,
\* inbound data events.
LifeSends == 1
DrainSends == 1
DrainPushes == 3
LifeLen == 1
LifeConnects == 1
LifeRecv == 1
\* SpecPing: clock ticks, pings written, pongs received.
MaxNow == 3
MaxPings == 2
MaxPongs == 2
\* SpecDispatch: inbound data frames.
MaxRecv == 3
\* SpecParse: the characters of a URL after its scheme.
MaxParseTail == 4
\* SpecUrl: the characters of a URL after its scheme.
MaxTail == 2
\* The limits of the send queue and of one batch, scaled down so that the
\* model reaches them (the code's batch limits are 64 and 256 KiB).
MAX_QUEUE_SIZE == 2
MAX_QUEUE_BYTES == 3
MAX_BATCH_SIZE == 2
MAX_BATCH_BYTES == 2

\* ------------------------------------------------------------- constants
\* enum class State
CONNECTING == 0
OPEN == 1
CLOSING == 2
CLOSED == 3
\* int _pingIntervalMs = 30000;
DefaultPingIntervalMs == 30000

States == {CONNECTING, OPEN, CLOSING, CLOSED}
Threads == {"t1", "t2"}
\* The thread that owns the connection: it alone calls connect and drops
\* the last reference; every thread calls send, sendBinary and close.
Owner == "t1"
CtxIds == 1..MaxConnects
WsiIds == 1..MaxConnects
Lens == 1..MaxLen
Handlers == {"onOpen", "onMessage", "onBinaryMessage", "onError", "onClose"}
\* The steps of cleanup() after its first statement (_running = false).
CleanupPcs == {"cl_joinable", "cl_join", "cl_destroy", "cl_null", "cl_state",
               "cl_qlock", "cl_queue", "cl_frag"}
ConnectPcs == {"cl_stop", "conn_state", "conn_ctx", "conn_wsi", "conn_run",
               "conn_thread"}
ClosePcs == {"close_ret", "close_set", "close_frame", "close_stop"}
SendPcs == {"send_lock", "send_push", "send_wake", "send_cancel"}

VARIABLES
  \* fields of HybridWebSocket
  state, running, context, wsi, serviceThread,
  sendQueue, queueBytes, sendMutex,
  fragmentBuffer, fragmentCapacity, fragmentIsBinary, slots,
  messagesSent, bytesSent, messagesReceived, bytesReceived,
  \* the transport engine: live contexts, each session's status and context,
  \* close requests, data frames raised
  ctxAlive, sess, wctx, nextCtx, nextWsi, rxMid, recvd, closeReq,
  \* the service thread: position and locals of serviceLoop
  spc, sctx, swritten, batchCount, batchBytes,
  \* caller threads: position, cleanup's caller, locals, last result
  pc, after, msg, sends,
  \* the build (width/signedness of the byte counter is not in the sources)
  counterUnsigned,
  \* the parsed URL of the connection, and the url argument of each
  \* connect call in progress
  url, host, port, path, useSsl, urlArg,
  \* the lock of the handler slots, the setter calls in progress, and
  \* whether the application's handlers throw
  callbackMutex, setArg, handlerThrows,
  \* the latest read of a handler slot by a getter
  slotRead,
  \* keep-alive: interval, armed timers, sessions asked for a writable
  \* event, ping request, send time of the last ping, latency gauge, clock
  pingIntervalMs, timers, writable, pingPending, lastPingTime,
  pingLatencyMs, now,
  \* history of the dispatch: locks held at the latest handler call, the
  \* message-handler calls made, the complete messages the engine raised
  \* and the message each session is in the middle of, the handler
  \* exceptions caught, the send times of the pings written, the pongs
  \* received
  held, delivered, raised, rx, caught, pings, pongs,
  \* history
  pushes, written, calls, phase, quiet, crashed, destroyed

connVars == <<state, running, context, wsi, serviceThread>>
queueVars == <<sendQueue, queueBytes, sendMutex>>
fragVars == <<fragmentBuffer, fragmentCapacity, fragmentIsBinary, slots>>
metricVars == <<messagesSent, bytesSent, messagesReceived, bytesReceived>>
lwsVars == <<ctxAlive, sess, wctx, nextCtx, nextWsi, rxMid, recvd, closeReq>>
svcVars == <<spc, sctx, swritten, batchCount, batchBytes>>
callerVars == <<pc, after, msg, sends>>
histVars == <<pushes, written, calls, phase, quiet, crashed, destroyed>>
urlVars == <<url, host, port, path, useSsl>>
\* The keep-alive fields other than the armed timers.
pingRest == <<pingIntervalMs, writable, pingPending, lastPingTime,
              pingLatencyMs, now, pings, pongs>>
dispVars == <<held, delivered, caught>>
\* What connect's URL parsing leaves alone among the fields below.
parseRest == <<counterUnsigned, callbackMutex, setArg, handlerThrows,
               slotRead, pingRest>>
\* What no case of the transport callback changes.
cbRest == <<parseRest, urlVars, urlArg>>
extVars == <<cbRest, dispVars, timers, raised, rx>>
vars == <<connVars, queueVars, fragVars, metricVars, lwsVars, svcVars,
          callerVars, extVars, histVars>>

NoMsg == [src |-> "none", k |-> 0, e |-> 0, len |-> 0, bin |-> FALSE]
NoArg == [h |-> "none", value |-> FALSE]
NoRead == [h |-> "none", locked |-> FALSE, racing |-> FALSE]
\* No inbound message in progress on a session.
NoRx == [data |-> <<>>, bin |-> FALSE]

Init ==
  /\ state = CLOSED /\ running = FALSE /\ context = 0 /\ wsi = 0
  /\ serviceThread = FALSE
  /\ sendQueue = <<>> /\ queueBytes = 0 /\ sendMutex = "free"
  /\ fragmentBuffer = <<>> /\ fragmentCapacity = 0
  /\ fragmentIsBinary = FALSE /\ slots = Handlers
  /\ messagesSent = 0 /\ bytesSent = 0
  /\ messagesReceived = 0 /\ bytesReceived = 0
  /\ ctxAlive = {} /\ nextCtx = 1 /\ nextWsi = 1
  /\ sess = [w \in WsiIds |-> "none"] /\ wctx = [w \in WsiIds |-> 0]
  /\ rxMid = [w \in WsiIds |-> FALSE] /\ recvd = 0 /\ closeReq = {}
  /\ spc = "none" /\ sctx = 0 /\ swritten = 0
  /\ batchCount = 0 /\ batchBytes = 0
  /\ pc = [t \in Threads |-> "idle"]
  /\ after = [t \in Threads |-> "none"]
  /\ msg = [t \in Threads |-> NoMsg]
  /\ sends = 0
  /\ counterUnsigned \in BOOLEAN
  /\ url = <<>> /\ host = <<>> /\ path = <<>> /\ port = 0 /\ useSsl = FALSE
  /\ urlArg = [t \in Threads |-> <<>>]
  /\ callbackMutex = "free" /\ setArg = [t \in Threads |-> NoArg]
  /\ handlerThrows = FALSE
  /\ slotRead = NoRead
  /\ pingIntervalMs = DefaultPingIntervalMs /\ timers = {} /\ writable = {}
  /\ pingPending = FALSE /\ lastPingTime = 0 /\ pingLatencyMs = 0
  /\ now = 0
  /\ held = {} /\ delivered = <<>> /\ raised = <<>> /\ caught = 0
  /\ rx = [w \in WsiIds |-> NoRx] /\ pings = <<>> /\ pongs = 0
  /\ pushes = 0 /\ written = <<>>
  /\ calls = 0
  /\ phase = "live" /\ quiet = FALSE /\ crashed = FALSE /\ destroyed = FALSE

\* ---------------------------------------------------------------- helpers
RECURSIVE SumLen(_)
SumLen(q) == IF q = <<>> THEN 0 ELSE Head(q).len + SumLen(Tail(q))

\* _queueBytes.load() >= MAX_QUEUE_BYTES.  The counter is kept as the
\* integer the fetch_add / fetch_sub calls add up to; an unsigned counter
\* whose sum is negative holds 2^w + sum, which is above every limit.
QueueBytesAtLimit(v) ==
  IF v < 0 THEN counterUnsigned ELSE v >= MAX_QUEUE_BYTES

Live == ~crashed

\* ------------------------------------------------- websocketCallback
\* A handler that throws, called outside any try block, would take the
\* exception through the C frames of the transport engine.
EscapesWhenThrown(throws) == throws
\* try { handler(...); } catch (...) {}: nothing leaves the dispatch.
Escapes(throws) == FALSE

\* Handler h is called with payload d by a thread holding the locks in
\* locks; an exception that escapes ends the process.
Call(h, d, locks) ==
  /\ calls' = calls + 1
  /\ held' = locks
  /\ delivered' = IF h \in {"onMessage", "onBinaryMessage"}
                  THEN Append(delivered, [h |-> h, data |-> d])
                  ELSE delivered
  /\ crashed' = (crashed \/ Escapes(handlerThrows))
  /\ caught' = IF handlerThrows /\ ~Escapes(handlerThrows)
               THEN caught + 1 ELSE caught
NoCall == UNCHANGED <<calls, held, delivered, caught, crashed>>

\* std::lock_guard lock(_callbackMutex);
\* if (slot.has_value()) { try { slot.value()(...); } catch (...) {} }
\* The handler runs with the callback lock held.
Invoke(h) ==
  /\ callbackMutex = "free"
  /\ IF h \in slots THEN Call(h, <<>>, {"callbackMutex"}) ELSE NoCall

\* std::unique_lock lock(_callbackMutex, std::defer_lock);
\* if (lock.try_lock() && slot.has_value()) {
\*   try { auto callback = slot.value(); lock.unlock(); callback(d); }
\*   catch (...) {} }
\* The thread holds the locks in locks besides; the message is given up
\* when the callback lock is taken.
TryInvoke(h, d, locks) ==
  IF callbackMutex = "free" /\ h \in slots THEN Call(h, d, locks) ELSE NoCall

\* Each Cb* is the effect of one case of the switch on the fields of the
\* connection; it is run by lws_service on the service thread and by
\* lws_context_destroy on the thread that tears the context down.
cbFields == <<state, calls, fragmentBuffer, fragmentCapacity,
              fragmentIsBinary,
              messagesReceived, bytesReceived, dispVars, timers>>
cbVars == <<cbFields, crashed>>

MessageHandler(isBinary) ==
  IF isBinary THEN "onBinaryMessage" ELSE "onMessage"

\* LWS_CALLBACK_CLIENT_ESTABLISHED on session w
CbEstablished(w) ==
  /\ state' = OPEN
  /\ timers' = IF pingIntervalMs > 0 THEN timers \cup {w} ELSE timers
  /\ Invoke("onOpen")
  /\ UNCHANGED <<fragmentBuffer, fragmentCapacity, fragmentIsBinary,
                 messagesReceived,
                 bytesReceived>>

\* estimatedSize = std::max(len * 4, static_cast<size_t>(128 * 1024))
EstimatedSize(len) == IF len * 4 > 128 * 1024 THEN len * 4 ELSE 128 * 1024
\* The capacity of a vector of capacity cap that has to hold n bytes:
\* reserve(n), and the growth of insert.
Reserve(cap, n) == IF n > cap THEN n ELSE cap

\* LWS_CALLBACK_CLIENT_RECEIVE
CbReceive(isBinary, isFirstFragment, isFinalFragment, data) ==
  /\ bytesReceived' = bytesReceived + Len(data)
  /\ UNCHANGED <<state, timers>>
  /\ IF ~isFirstFragment \/ ~isFinalFragment
     THEN LET base == IF isFirstFragment THEN <<>> ELSE fragmentBuffer
              fb == IF isFirstFragment THEN isBinary ELSE fragmentIsBinary
              acc == base \o data
              reserved == IF isFirstFragment
                          THEN Reserve(fragmentCapacity,
                                       EstimatedSize(Len(data)))
                          ELSE fragmentCapacity
              cap == Reserve(reserved, Len(acc))
          IN /\ fragmentIsBinary' = fb
             /\ IF isFinalFragment
                THEN /\ messagesReceived' = messagesReceived + 1
                     /\ TryInvoke(MessageHandler(fb), acc,
                                  {"fragmentMutex"})
                     /\ fragmentBuffer' = IF crashed' THEN acc ELSE <<>>
                     /\ fragmentCapacity' = IF crashed' THEN cap ELSE 0
                ELSE /\ fragmentBuffer' = acc
                     /\ fragmentCapacity' = cap
                     /\ UNCHANGED messagesReceived
                     /\ NoCall
     ELSE /\ messagesReceived' = messagesReceived + 1
          /\ TryInvoke(MessageHandler(isBinary), data, {})
          /\ UNCHANGED <<fragmentBuffer, fragmentCapacity, fragmentIsBinary>>

\* LWS_CALLBACK_CLIENT_CONNECTION_ERROR
CbConnectionError ==
  /\ state' = CLOSED
  /\ Invoke("onError")
  /\ UNCHANGED <<fragmentBuffer, fragmentCapacity, fragmentIsBinary,
                 messagesReceived,
                 bytesReceived, timers>>

\* LWS_CALLBACK_CLIENT_CLOSED
CbClosed ==
  /\ state' = CLOSED
  /\ Invoke("onClose")
  /\ UNCHANGED <<fragmentBuffer, fragmentCapacity, fragmentIsBinary,
                 messagesReceived,
                 bytesReceived, timers>>

\* ---------------------------------------------------------- serviceLoop
\* while (_running && _context)
ServiceLoopCheck ==
  /\ Live /\ spc = "check"
  /\ IF running /\ context # 0
     THEN spc' = "service" /\ sctx' = context
     ELSE spc' = "exited" /\ sctx' = 0
  /\ UNCHANGED <<connVars, queueVars, fragVars, metricVars, lwsVars,
                 swritten, batchCount, batchBytes, callerVars,
                 extVars, histVars>>

\* What every event raised inside lws_service leaves alone.
EventFrame ==
  UNCHANGED <<running, context, wsi, serviceThread, queueVars, slots,
              messagesSent, bytesSent, ctxAlive, wctx, nextCtx, nextWsi,
              closeReq, svcVars,
              callerVars, cbRest, pushes, written, phase, quiet,
              destroyed>>

\* The sessions of context c whose status is st.
SessionsOf(c, st) == {w \in WsiIds : wctx[w] = c /\ sess[w] = st}

\* A session pointer that may be handed to the transport engine: the
\* session was created, not yet freed, and its context is alive.
ValidWsi(w) ==
  w # 0 /\ sess[w] \in {"connecting", "open"} /\ wctx[w] \in ctxAlive

\* The message session w is in the middle of, once a frame with the given
\* flag and payload has arrived: the first frame of a message fixes its
\* kind, the frames' payloads follow each other.
InboundMessage(w, isBinary, data) ==
  IF rxMid[w] THEN [rx[w] EXCEPT !.data = @ \o data]
  ELSE [data |-> data, bin |-> isBinary]

\* The record of a complete message the engine has raised: its handler, its
\* payload, and whether the handler's slot was set when it arrived.
Raised(message) ==
  [h |-> MessageHandler(message.bin), data |-> message.data,
   set |-> MessageHandler(message.bin) \in slots]

EvEstablished ==
  /\ Live /\ spc = "service" /\ sctx \in ctxAlive
  /\ \E w \in SessionsOf(sctx, "connecting") :
       /\ sess' = [sess EXCEPT ![w] = "open"]
       /\ CbEstablished(w)
  /\ UNCHANGED <<rxMid, recvd, raised, rx>>
  /\ EventFrame

EvReceive ==
  /\ Live /\ spc = "service" /\ sctx \in ctxAlive
  /\ \E w \in SessionsOf(sctx, "open"), isBinary \in BOOLEAN,
        isFinal \in BOOLEAN :
       LET data == <<recvd + 1>>
           message == InboundMessage(w, isBinary, data)
       IN /\ CbReceive(isBinary, ~rxMid[w], isFinal, data)
          /\ rxMid' = [rxMid EXCEPT ![w] = ~isFinal]
          /\ rx' = [rx EXCEPT ![w] = IF isFinal THEN NoRx ELSE message]
          /\ raised' = IF isFinal THEN Append(raised, Raised(message))
                        ELSE raised
  /\ recvd' = recvd + 1
  /\ UNCHANGED sess
  /\ EventFrame

EvConnectionError ==
  /\ Live /\ spc = "service" /\ sctx \in ctxAlive
  /\ \E w \in SessionsOf(sctx, "connecting") :
       sess' = [sess EXCEPT ![w] = "failed"]
  /\ CbConnectionError
  /\ UNCHANGED <<rxMid, recvd, raised, rx>>
  /\ EventFrame

EvClosed ==
  /\ Live /\ spc = "service" /\ sctx \in ctxAlive
  /\ \E w \in SessionsOf(sctx, "open") :
       sess' = [sess EXCEPT ![w] = "closed"]
  /\ CbClosed
  /\ UNCHANGED <<rxMid, recvd, raised, rx>>
  /\ EventFrame

\* lws_service returns: result >= 0 goes on to the queue, result < 0 breaks.
ServiceReturn ==
  /\ Live /\ spc = "service"
  /\ IF sctx \notin ctxAlive
     THEN crashed' = TRUE /\ UNCHANGED <<spc, sctx>>
     ELSE /\ crashed' = crashed
          /\ sctx' = 0
          /\ \E result \in {-1, 0} :
               spc' = IF result < 0 THEN "exited" ELSE "drain"
  /\ UNCHANGED <<connVars, queueVars, fragVars, metricVars, lwsVars,
                 swritten, batchCount, batchBytes, callerVars,
                 extVars, pushes, written, calls, phase, quiet,
                 destroyed>>

\* if (_wsi && _state == State::OPEN) { unique_lock lock(_sendMutex, try_to_lock);
\*   if (!lock.owns_lock()) continue; ...
DrainBegin ==
  /\ Live /\ spc = "drain"
  /\ IF wsi # 0 /\ state = OPEN /\ sendMutex = "free"
     THEN /\ sendMutex' = "svc" /\ spc' = "batch"
          /\ batchCount' = 0 /\ batchBytes' = 0
     ELSE /\ spc' = "check"
          /\ UNCHANGED <<sendMutex, batchCount, batchBytes>>
  /\ UNCHANGED <<connVars, sendQueue, queueBytes, fragVars, metricVars,
                 lwsVars, sctx, swritten, callerVars, extVars,
                 histVars>>

\* A drain that keeps the lock across the write.
KeepLocked(m) == m
\* lock.unlock() before lws_write
Unlock(m) == "free"

\* The head of the inner while: peek the front and unlock for the write, or
\* leave the block (the lock is released with it).
BatchNext ==
  /\ Live /\ spc = "batch" /\ sendMutex = "svc"
  /\ IF /\ sendQueue # <<>>
        /\ batchCount < MAX_BATCH_SIZE
        /\ batchBytes < MAX_BATCH_BYTES
     THEN /\ sendMutex' = Unlock(sendMutex)
          /\ spc' = "write" /\ UNCHANGED <<batchCount, batchBytes>>
     ELSE /\ sendMutex' = "free"
          /\ spc' = "check" /\ batchCount' = 0 /\ batchBytes' = 0
  /\ UNCHANGED <<connVars, sendQueue, queueBytes, fragVars, metricVars,
                 lwsVars, sctx, swritten,
                 callerVars, extVars, histVars>>

\* What lws_write can return for a payload of n bytes: the whole length, a
\* short count, or an error.
WriteResults(n) == {-1} \cup 0..n

\* int written = lws_write(_wsi, ..., msg.data.size(), writeProtocol);
\* msg refers to the front of the queue; a queue emptied in the meantime
\* leaves it dangling.
Write ==
  /\ Live /\ spc = "write"
  /\ IF sendQueue = <<>> \/ ~ValidWsi(wsi)
     THEN crashed' = TRUE /\ UNCHANGED <<swritten, written, spc>>
     ELSE /\ \E w \in WriteResults(Head(sendQueue).len) :
               /\ swritten' = w
               /\ written' = IF w = Head(sendQueue).len
                             THEN Append(written, Head(sendQueue))
                             ELSE written
          /\ spc' = "relock"
          /\ crashed' = crashed
  /\ UNCHANGED <<connVars, queueVars, fragVars, metricVars, lwsVars,
                 sctx, batchCount, batchBytes, callerVars,
                 extVars, pushes, calls, phase, quiet, destroyed>>

\* A pop that takes the newest message instead of the one written.
PopBack(q) == SubSeq(q, 1, Len(q) - 1)
\* The queue after a complete write: _sendQueue.pop()
PopFront(q) == Tail(q)

\* msg.data.size() read through the reference to the front after pop() has
\* destroyed that element: the freed vector still shows its length, or none.
SizeAfterPop(n) == {n, 0}

\* lock.lock(); if (written == size) { fetch_sub; batch++; pop; metrics }
\* else break;
AfterWrite ==
  /\ Live /\ spc = "relock" /\ sendMutex = "free"
  /\ IF sendQueue = <<>>
     THEN /\ crashed' = TRUE
          /\ UNCHANGED <<sendQueue, queueBytes, sendMutex, batchCount,
                         batchBytes, messagesSent, bytesSent, spc>>
     ELSE LET size == Head(sendQueue).len IN
          /\ crashed' = crashed
          /\ IF swritten = size
             THEN /\ queueBytes' = queueBytes - size
                  /\ batchBytes' = batchBytes + size
                  /\ batchCount' = batchCount + 1
                  /\ sendQueue' = PopFront(sendQueue)
                  /\ messagesSent' = messagesSent + 1
                  /\ \E sz \in SizeAfterPop(size) :
                       bytesSent' = bytesSent + sz
                  /\ sendMutex' = "svc"
                  /\ spc' = "batch"
             ELSE /\ spc' = "check"
                  /\ batchCount' = 0 /\ batchBytes' = 0
                  /\ UNCHANGED <<sendQueue, queueBytes, sendMutex,
                                 messagesSent, bytesSent>>
  /\ swritten' = 0
  /\ UNCHANGED <<connVars, fragVars, messagesReceived, bytesReceived,
                 lwsVars, sctx, callerVars, extVars,
                 pushes, written, calls, phase, quiet, destroyed>>

\* ------------------------------------------------------- caller threads
Goto(t, l) == pc' = [pc EXCEPT ![t] = l]
Return(t) == pc' = [pc EXCEPT ![t] = "idle"]
\* A throw leaves the call; the thread is at the exception until it unwinds.
Exceptions == {"NotOpen", "QueueFull", "InvalidUrl", "ConnectFailed"}
Throw(t, e) == pc' = [pc EXCEPT ![t] = e]
\* A step of caller t ends the undisturbed run of every other cleanup.
Disturb(t) ==
  quiet' = (quiet /\ t = Owner /\ pc[t] \in CleanupPcs \cup {"cl_stop"})
CanCall(t) == Live /\ ~destroyed /\ pc[t] = "idle"

\* ------------------------------------------------------ send / sendBinary
\* A state test that lets a send through while the connection is closing.
NotOpenOrClosing(s) == s # OPEN /\ s # CLOSING
\* _state != State::OPEN
NotOpen(s) == s # OPEN

\* if (_state != State::OPEN) throw ...; build the QueuedMessage.
SendCheck(t, len, isBinary) ==
  /\ CanCall(t)
  /\ IF NotOpen(state)
     THEN /\ Throw(t, "NotOpen")
          /\ UNCHANGED <<msg, sends>>
     ELSE /\ msg' = [msg EXCEPT ![t] = [src |-> t, k |-> sends + 1, e |-> 0,
                                        len |-> len, bin |-> isBinary]]
          /\ sends' = sends + 1
          /\ Goto(t, "send_lock")
         
  /\ Disturb(t)
  /\ UNCHANGED <<connVars, queueVars, fragVars, metricVars, lwsVars,
                 svcVars, after, extVars, pushes, written, calls,
                 phase, crashed, destroyed>>

\* The same entry of send / sendBinary for a call that is one of an unending
\* series: its message is not numbered, so that the series can go on
\* without the call count growing.
SendUntracked(t, len, isBinary) ==
  /\ CanCall(t)
  /\ IF NotOpen(state)
     THEN /\ Throw(t, "NotOpen")
          /\ UNCHANGED msg
     ELSE /\ msg' = [msg EXCEPT ![t] = [src |-> t, k |-> 0, e |-> 0,
                                        len |-> len, bin |-> isBinary]]
          /\ Goto(t, "send_lock")
  /\ Disturb(t)
  /\ UNCHANGED <<connVars, queueVars, fragVars, metricVars, lwsVars,
                 svcVars, after, sends, extVars, pushes, written, calls,
                 phase, crashed, destroyed>>

\* std::lock_guard<std::mutex> lock(_sendMutex);
SendLock(t) ==
  /\ Live /\ pc[t] = "send_lock" /\ sendMutex = "free"
  /\ sendMutex' = t
  /\ Goto(t, "send_push")
  /\ Disturb(t)
  /\ UNCHANGED <<connVars, sendQueue, queueBytes, fragVars, metricVars,
                 lwsVars, svcVars, after, msg, sends,
                 extVars, pushes, written, calls, phase, crashed,
                 destroyed>>

\* msg.data.size() read after _sendQueue.push(std::move(msg)): the vector
\* was moved from, so it is empty.
SizeAfterMove(m) == 0

\* The limits check, then push and fetch_add, all under the lock.
SendPush(t) ==
  /\ Live /\ pc[t] = "send_push" /\ sendMutex = t
  /\ sendMutex' = "free"
  /\ IF Len(sendQueue) >= MAX_QUEUE_SIZE \/ QueueBytesAtLimit(queueBytes)
     THEN /\ Throw(t, "QueueFull")
          /\ UNCHANGED <<sendQueue, queueBytes, pushes>>
     ELSE /\ sendQueue' = Append(sendQueue, [msg[t] EXCEPT !.e = pushes + 1])
          /\ queueBytes' = queueBytes + SizeAfterMove(msg[t])
          /\ pushes' = pushes + 1
          /\ Goto(t, "send_wake")
         
  /\ Disturb(t)
  /\ msg' = [msg EXCEPT ![t] = NoMsg]
  /\ UNCHANGED <<connVars, fragVars, metricVars, lwsVars, svcVars, after,
                 sends, extVars, written, calls, phase,
                 crashed, destroyed>>

\* if (_context)
SendWake(t) ==
  /\ Live /\ pc[t] = "send_wake"
  /\ IF context # 0
     THEN Goto(t, "send_cancel")
     ELSE Return(t)
  /\ Disturb(t)
  /\ UNCHANGED <<connVars, queueVars, fragVars, metricVars, lwsVars,
                 svcVars, after, msg, sends, extVars, pushes,
                 written, calls, phase, crashed, destroyed>>

\* lws_cancel_service(_context): on a context destroyed or reset in the
\* meantime the call is undefined; it may crash or pass unnoticed.
SendCancel(t) ==
  /\ Live /\ pc[t] = "send_cancel"
  /\ Return(t)
  /\ IF context \in ctxAlive
     THEN crashed' = crashed
     ELSE crashed' \in BOOLEAN
  /\ Disturb(t)
  /\ UNCHANGED <<connVars, queueVars, fragVars, metricVars, lwsVars,
                 svcVars, after, msg, sends, extVars, pushes,
                 written, calls, phase, destroyed>>

\* ------------------------------------------------------------------ close
\* The history of close and teardown: "closed" once a close() call has
\* returned, "tearing" from the call (connect, the destructor) that then
\* runs cleanup, "torn" once that cleanup has returned; a connect that
\* goes on to set CONNECTING or is called later, or a close() still at
\* work during the teardown, starts over at "live".
PhaseAfterClose == IF phase = "live" THEN "closed" ELSE phase
PhaseInClose == IF phase \in {"tearing", "torn"} THEN "live" ELSE phase

\* A state test that takes only CLOSED for closed.
OnlyClosed(s) == s = CLOSED
\* _state == State::CLOSED || _state == State::CLOSING
ClosedOrClosing(s) == s = CLOSED \/ s = CLOSING

\* if (_state == State::CLOSED || _state == State::CLOSING) return;
CloseCheck(t) ==
  /\ CanCall(t)
  /\ Goto(t, IF ClosedOrClosing(state)
             THEN "close_ret" ELSE "close_set")
  /\ Disturb(t)
  /\ UNCHANGED <<connVars, queueVars, fragVars, metricVars, lwsVars,
                 svcVars, after, msg, sends, extVars, pushes,
                 written, calls, phase, crashed, destroyed>>

\* return;  (close() found the connection CLOSING or CLOSED)
CloseReturn(t) ==
  /\ Live /\ pc[t] = "close_ret"
  /\ Return(t)
  /\ phase' = PhaseAfterClose
  /\ Disturb(t)
  /\ UNCHANGED <<connVars, queueVars, fragVars, metricVars, lwsVars,
                 svcVars, after, msg, sends, extVars, pushes,
                 written, calls, crashed, destroyed>>

\* _state = State::CLOSING;
CloseSet(t) ==
  /\ Live /\ pc[t] = "close_set"
  /\ state' = CLOSING
  /\ Goto(t, "close_frame")
  /\ phase' = PhaseInClose
  /\ Disturb(t)
  /\ UNCHANGED <<running, context, wsi, serviceThread, queueVars,
                 fragVars, metricVars, lwsVars, svcVars, after, msg,
                 sends, extVars, pushes, written, calls,
                 crashed, destroyed>>

\* if (_wsi) { lws_close_reason(_wsi, ...); lws_callback_on_writable(_wsi); }
CloseFrame(t) ==
  /\ Live /\ pc[t] = "close_frame"
  /\ IF wsi = 0
     THEN UNCHANGED <<closeReq, crashed>>
     ELSE IF ValidWsi(wsi)
          THEN closeReq' = closeReq \cup {wsi} /\ crashed' = crashed
          ELSE closeReq' = closeReq /\ crashed' \in BOOLEAN
  /\ Goto(t, "close_stop")
  /\ phase' = PhaseInClose
  /\ Disturb(t)
  /\ UNCHANGED <<connVars, queueVars, fragVars, metricVars, ctxAlive,
                 sess, wctx, nextCtx, nextWsi, rxMid, recvd, svcVars,
                 after, msg, sends, extVars, pushes, written,
                 calls, destroyed>>

\* _running = false;
CloseStop(t) ==
  /\ Live /\ pc[t] = "close_stop"
  /\ running' = FALSE
  /\ Return(t)
  /\ phase' = IF phase \in {"tearing", "torn"} THEN "live"
              ELSE PhaseAfterClose
  /\ Disturb(t)
  /\ UNCHANGED <<state, context, wsi, serviceThread, queueVars, fragVars,
                 metricVars, lwsVars, svcVars, after, msg, sends,
                 extVars, pushes, written, calls, crashed,
                 destroyed>>

\* An exception reaches the caller (the promise is rejected).
Unwind(t) ==
  /\ Live /\ pc[t] \in Exceptions
  /\ Return(t)
  /\ urlArg' = [urlArg EXCEPT ![t] = <<>>]
  /\ Disturb(t)
  /\ UNCHANGED <<connVars, queueVars, fragVars, metricVars, lwsVars,
                 svcVars, after, msg, sends, parseRest, urlVars, dispVars,
                 timers, raised, rx, pushes, written, calls, phase, crashed,
                 destroyed>>

\* ---------------------------------------------------------------- cleanup
\* _running = false;  (the first statement of cleanup, run for connect)
CleanupStop(t) ==
  /\ Live /\ pc[t] = "cl_stop"
  /\ running' = FALSE
  /\ Goto(t, "cl_joinable")
  /\ quiet' = TRUE
  /\ UNCHANGED <<state, context, wsi, serviceThread, queueVars, fragVars,
                 metricVars, lwsVars, svcVars, after, msg, sends,
                 extVars, pushes, written, calls, phase, crashed,
                 destroyed>>

\* ~HybridWebSocket() { cleanup(); }: runs when no call is in progress and
\* ends the object; shown up to cleanup's first statement.
Destructor(t) ==
  /\ CanCall(t) /\ t = Owner /\ \A u \in Threads : pc[u] = "idle"
  /\ destroyed' = TRUE
  /\ running' = FALSE
  /\ Goto(t, "cl_joinable")
  /\ after' = [after EXCEPT ![t] = "dtor"]
  /\ phase' = IF phase = "closed" THEN "tearing" ELSE phase
  /\ quiet' = TRUE
  /\ UNCHANGED <<state, context, wsi, serviceThread, queueVars, fragVars,
                 metricVars, lwsVars, svcVars, msg, sends,
                 extVars, pushes, written, calls, crashed>>

\* if (_serviceThread.joinable())
CleanupJoinable(t) ==
  /\ Live /\ pc[t] = "cl_joinable"
  /\ Goto(t, IF serviceThread THEN "cl_join" ELSE "cl_destroy")
  /\ Disturb(t)
  /\ UNCHANGED <<connVars, queueVars, fragVars, metricVars, lwsVars,
                 svcVars, after, msg, sends, extVars, pushes,
                 written, calls, phase, crashed, destroyed>>

\* _serviceThread.join(): returns once serviceLoop has returned.  On a
\* thread another cleanup joined in the meantime join() throws: out of the
\* connect task, or, from the destructor, into std::terminate.
CleanupJoin(t) ==
  /\ Live /\ pc[t] = "cl_join"
  /\ IF serviceThread
     THEN /\ spc = "exited"
          /\ serviceThread' = FALSE /\ spc' = "none"
          /\ Goto(t, "cl_destroy")
          /\ UNCHANGED <<crashed>>
     ELSE /\ UNCHANGED <<serviceThread, spc>>
          /\ IF after[t] = "dtor"
             THEN crashed' = TRUE /\ UNCHANGED pc
             ELSE crashed' = crashed /\ Throw(t, "ConnectFailed")
  /\ Disturb(t)
  /\ UNCHANGED <<state, running, context, wsi, queueVars, fragVars,
                 metricVars, lwsVars, sctx, swritten, batchCount,
                 batchBytes, after, msg, sends, extVars, pushes,
                 written, calls, phase, destroyed>>

\* The sessions after context c has freed its own: a session that got its
\* terminal event ends as st, every other one is freed without an event.
FreeSessions(c, from, st) ==
  [w \in WsiIds |->
     IF wctx[w] = c /\ sess[w] \in {"connecting", "open"}
     THEN IF sess[w] = from THEN st ELSE "dead"
     ELSE sess[w]]

\* lws_context_destroy(c) closes the sessions of c.  For a session that is
\* still connecting or open the engine may raise the terminal event
\* (CONNECTION_ERROR, CLIENT_CLOSED) on the calling thread while doing so.
DestroySessions(c) ==
  \/ /\ SessionsOf(c, "connecting") # {}
     /\ sess' = FreeSessions(c, "connecting", "failed")
     /\ CbConnectionError
  \/ /\ SessionsOf(c, "open") # {}
     /\ sess' = FreeSessions(c, "open", "closed")
     /\ CbClosed
  \/ /\ sess' = FreeSessions(c, "none", "dead")
     /\ UNCHANGED cbVars

\* if (_context) { lws_context_destroy(_context); _context = nullptr; }
CleanupDestroy(t) ==
  /\ Live /\ pc[t] = "cl_destroy"
  /\ IF context = 0
     THEN UNCHANGED <<context, ctxAlive, sess, cbVars>>
     ELSE IF context \in ctxAlive
          THEN /\ ctxAlive' = ctxAlive \ {context}
               /\ DestroySessions(context)
               /\ context' = 0
          ELSE /\ crashed' = TRUE
               /\ UNCHANGED <<context, ctxAlive, sess, cbFields>>
  /\ Goto(t, "cl_null")
  /\ Disturb(t)
  /\ UNCHANGED <<running, wsi, serviceThread, queueVars, slots,
                 messagesSent, bytesSent, wctx, nextCtx, nextWsi, rxMid,
                 recvd, closeReq, svcVars, after, msg, sends,
                 cbRest, raised, rx, pushes, written, phase, destroyed>>

\* _wsi = nullptr;
CleanupNull(t) ==
  /\ Live /\ pc[t] = "cl_null"
  /\ wsi' = 0
  /\ Goto(t, "cl_state")
  /\ Disturb(t)
  /\ UNCHANGED <<state, running, context, serviceThread, queueVars,
                 fragVars, metricVars, lwsVars, svcVars, after, msg,
                 sends, extVars, pushes, written, calls, phase,
                 crashed, destroyed>>

\* _state = State::CLOSED;
CleanupState(t) ==
  /\ Live /\ pc[t] = "cl_state"
  /\ state' = CLOSED
  /\ Goto(t, "cl_qlock")
  /\ Disturb(t)
  /\ UNCHANGED <<running, context, wsi, serviceThread, queueVars,
                 fragVars, metricVars, lwsVars, svcVars, after, msg,
                 sends, extVars, pushes, written, calls, phase,
                 crashed, destroyed>>

\* std::lock_guard<std::mutex> lock(_sendMutex);
CleanupQueueLock(t) ==
  /\ Live /\ pc[t] = "cl_qlock" /\ sendMutex = "free"
  /\ sendMutex' = t
  /\ Goto(t, "cl_queue")
  /\ Disturb(t)
  /\ UNCHANGED <<connVars, sendQueue, queueBytes, fragVars, metricVars,
                 lwsVars, svcVars, after, msg, sends,
                 extVars, pushes, written, calls, phase, crashed,
                 destroyed>>

\* A cleanup that empties the queue and keeps the byte counter.
CleanupQueueKeepCounter(t) ==
  /\ Live /\ pc[t] = "cl_queue" /\ sendMutex = t
  /\ sendQueue' = <<>>
  /\ sendMutex' = "free"
  /\ Goto(t, "cl_frag")
  /\ Disturb(t)
  /\ UNCHANGED <<connVars, queueBytes, fragVars, metricVars, lwsVars,
                 svcVars, after, msg, sends, extVars, pushes,
                 written, calls, phase, crashed, destroyed>>
\* while (!_sendQueue.empty()) _sendQueue.pop();  _queueBytes.store(0);
CleanupQueue(t) ==
  /\ Live /\ pc[t] = "cl_queue" /\ sendMutex = t
  /\ sendQueue' = <<>>
  /\ queueBytes' = 0
  /\ sendMutex' = "free"
  /\ Goto(t, "cl_frag")
  /\ Disturb(t)
  /\ UNCHANGED <<connVars, fragVars, metricVars, lwsVars, svcVars, after,
                 msg, sends, extVars, pushes, written, calls,
                 phase, crashed, destroyed>>

\* _fragmentBuffer.clear(), which keeps the allocation; and cleanup returns
\* to its caller: connect goes
\* on, connect's failure path throws, the destructor ends.
CleanupFragment(t) ==
  /\ Live /\ pc[t] = "cl_frag"
  /\ fragmentBuffer' = <<>>
  /\ IF after[t] = "connect"
     THEN Goto(t, "conn_state")
     ELSE IF after[t] = "throw"
          THEN Throw(t, "ConnectFailed")
          ELSE Goto(t, "gone")
  /\ after' = [after EXCEPT ![t] = "none"]
  /\ phase' = IF phase = "tearing" THEN "torn" ELSE phase
  /\ quiet' = quiet
  /\ UNCHANGED <<connVars, queueVars, fragmentCapacity, fragmentIsBinary,
                 slots, metricVars,
                 lwsVars, svcVars, msg, sends, extVars,
                 pushes, written, calls, crashed, destroyed>>

\* ---------------------------------------------------------------- connect
InConnect(u) ==
  pc[u] \in ConnectPcs \/ (pc[u] \in CleanupPcs /\ after[u] # "dtor")

\* ---------------------------------------------------------------- parseUrl
\* A URL is the sequence of its characters.
WssPrefix == <<"w", "s", "s", ":", "/", "/">>
WsPrefix == <<"w", "s", ":", "/", "/">>
Digits == <<"0", "1", "2", "3", "4", "5", "6", "7", "8", "9">>
IsDigit(c) == \E d \in 1..10 : Digits[d] = c
DigitValue(c) == (CHOOSE d \in 1..10 : Digits[d] = c) - 1

\* url.find(prefix) == 0
StartsWith(u, prefix) ==
  Len(u) >= Len(prefix) /\ SubSeq(u, 1, Len(prefix)) = prefix

\* url.find_first_of(chars, pos), with npos replaced by url.length():
\* positions count from 1, the end of the URL is Len(u) + 1.
FindFirstOf(u, chars, pos) ==
  LET hits == {i \in pos..Len(u) : u[i] \in chars}
  IN IF hits = {} THEN Len(u) + 1
     ELSE CHOOSE i \in hits : \A j \in hits : i <= j

\* The number the leading digits of str stand for.
RECURSIVE LeadingNumber(_, _)
LeadingNumber(str, acc) ==
  IF str = <<>> \/ ~IsDigit(Head(str)) THEN acc
  ELSE LeadingNumber(Tail(str), 10 * acc + DigitValue(Head(str)))

\* std::stoi(portStr): converts the leading digits and ignores what follows
\* them; throws when the string does not begin with a digit.
Stoi(str) ==
  IF str = <<>> \/ ~IsDigit(Head(str))
  THEN [ok |-> FALSE, value |-> 0]
  ELSE [ok |-> TRUE, value |-> LeadingNumber(str, 0)]

\* _port = _useSsl ? 443 : 80;
DefaultPort(ssl) == IF ssl THEN 443 ELSE 80

\* The fields parseUrl writes, as one record.
UrlFields ==
  [url |-> url, host |-> host, port |-> port, path |-> path,
   useSsl |-> useSsl]

\* 4. Parse path, then _url = url; return true;
ParsePath(u, hostEnd, f) ==
  [ok |-> TRUE,
   f |-> [f EXCEPT !.path = IF hostEnd <= Len(u) /\ u[hostEnd] = "/"
                            THEN SubSeq(u, hostEnd, Len(u))
                            ELSE <<"/">>,
                   !.url = u]]

\* 3. Parse port (if present)
ParsePort(u, hostEnd, f) ==
  IF hostEnd <= Len(u) /\ u[hostEnd] = ":"
  THEN LET portEnd == FindFirstOf(u, {"/"}, hostEnd + 1)
           n == Stoi(SubSeq(u, hostEnd + 1, portEnd - 1))
       IN IF n.ok THEN ParsePath(u, portEnd, [f EXCEPT !.port = n.value])
          ELSE [ok |-> FALSE, f |-> f]
  ELSE ParsePath(u, hostEnd, f)

\* 2. Find host end, from position pos on
ParseHost(u, pos, f) ==
  LET hostEnd == FindFirstOf(u, {":", "/", "?"}, pos)
      h == SubSeq(u, pos, hostEnd - 1)
      g == [f EXCEPT !.host = h]
  IN IF h = <<>> THEN [ok |-> FALSE, f |-> g]
     ELSE ParsePort(u, hostEnd,
                    [g EXCEPT !.port = DefaultPort(g.useSsl)])

\* bool parseUrl(url): the result, and the fields as the call leaves them.
ParseUrl(u, f) ==
  IF StartsWith(u, WssPrefix)
  THEN ParseHost(u, Len(WssPrefix) + 1, [f EXCEPT !.useSsl = TRUE])
  ELSE IF StartsWith(u, WsPrefix)
       THEN ParseHost(u, Len(WsPrefix) + 1, [f EXCEPT !.useSsl = FALSE])
       ELSE [ok |-> FALSE, f |-> f]

\* connect after parseUrl: on to cleanup, or the exception.
ConnectParsed(t, urlOk) ==
  IF urlOk
  THEN /\ Goto(t, "cl_stop")
       /\ after' = [after EXCEPT ![t] = "connect"]
       /\ phase' = IF phase = "closed" THEN "tearing"
                   ELSE IF phase = "torn" THEN "live" ELSE phase
  ELSE /\ Throw(t, "InvalidUrl")
       /\ UNCHANGED <<after, phase>>

\* if (!parseUrl(url)) throw std::invalid_argument(...); then cleanup().
ConnectBegin(t, u) ==
  /\ CanCall(t)
  /\ LET parsed == ParseUrl(u, UrlFields) IN
     /\ url' = parsed.f.url /\ host' = parsed.f.host
     /\ port' = parsed.f.port /\ path' = parsed.f.path
     /\ useSsl' = parsed.f.useSsl
     /\ ConnectParsed(t, parsed.ok)
  /\ urlArg' = [urlArg EXCEPT ![t] = u]
  /\ Disturb(t)
  /\ UNCHANGED <<connVars, queueVars, fragVars, metricVars, lwsVars,
                 svcVars, msg, sends, parseRest, dispVars, timers, raised,
                 rx, pushes, written, calls, crashed, destroyed>>

\* The URLs of the connects outside SpecUrl: one that parses and one that
\* fails at the scheme.
LifeUrls == {WsPrefix \o <<"a">>, <<"a">>}

\* connect called while no other connect is in progress.
Connect(t) ==
  /\ t = Owner
  /\ \A u \in Threads \ {t} : ~InConnect(u)
  /\ \E u \in LifeUrls : ConnectBegin(t, u)

\* connect called while another thread is still inside connect.
ConnectOverlapping(t) ==
  /\ \E u \in Threads \ {t} : InConnect(u)
  /\ \E u \in LifeUrls : ConnectBegin(t, u)

\* _state = State::CONNECTING;
ConnectState(t) ==
  /\ Live /\ pc[t] = "conn_state"
  /\ state' = CONNECTING
  /\ Goto(t, "conn_ctx")
  /\ phase' = "live"
  /\ Disturb(t)
  /\ UNCHANGED <<running, context, wsi, serviceThread, queueVars,
                 fragVars, metricVars, lwsVars, svcVars, after, msg,
                 sends, extVars, pushes, written, calls, crashed,
                 destroyed>>

\* _context = lws_create_context(&info);
\* if (!_context) { _state = State::CLOSED; throw ...; }
ConnectContext(t, created) ==
  /\ Live /\ pc[t] = "conn_ctx"
  /\ IF created
     THEN /\ context' = nextCtx
          /\ ctxAlive' = ctxAlive \cup {nextCtx}
          /\ nextCtx' = nextCtx + 1
          /\ Goto(t, "conn_wsi")
          /\ UNCHANGED state
     ELSE /\ context' = 0
          /\ state' = CLOSED
          /\ Throw(t, "ConnectFailed")
          /\ UNCHANGED <<ctxAlive, nextCtx>>
  /\ Disturb(t)
  /\ UNCHANGED <<running, wsi, serviceThread, queueVars, fragVars,
                 metricVars, sess, wctx, nextWsi, rxMid, recvd, closeReq,
                 svcVars, after, msg, sends, extVars, pushes,
                 written, calls, phase, crashed, destroyed>>

\* _wsi = lws_client_connect_via_info(&ccinfo);
\* if (!_wsi) { delete userData; cleanup(); throw ...; }
ConnectSession(t, created) ==
  /\ Live /\ pc[t] = "conn_wsi"
  /\ IF context \notin ctxAlive
     THEN /\ crashed' = TRUE
          /\ UNCHANGED <<wsi, sess, wctx, nextWsi, pc, after>>
     ELSE /\ crashed' = crashed
          /\ IF created
             THEN /\ wsi' = nextWsi
                  /\ sess' = [sess EXCEPT ![nextWsi] = "connecting"]
                  /\ wctx' = [wctx EXCEPT ![nextWsi] = context]
                  /\ nextWsi' = nextWsi + 1
                  /\ Goto(t, "conn_run")
                  /\ UNCHANGED after
             ELSE /\ wsi' = 0
                  /\ Goto(t, "cl_stop")
                  /\ after' = [after EXCEPT ![t] = "throw"]
                  /\ UNCHANGED <<sess, wctx, nextWsi>>
  /\ Disturb(t)
  /\ UNCHANGED <<state, running, context, serviceThread, queueVars,
                 fragVars, metricVars, ctxAlive, nextCtx, rxMid, recvd,
                 closeReq, svcVars, msg, sends, extVars,
                 pushes, written, calls, phase, destroyed>>

\* _running = true;
ConnectRun(t) ==
  /\ Live /\ pc[t] = "conn_run"
  /\ running' = TRUE
  /\ Goto(t, "conn_thread")
  /\ Disturb(t)
  /\ UNCHANGED <<state, context, wsi, serviceThread, queueVars, fragVars,
                 metricVars, lwsVars, svcVars, after, msg, sends,
                 extVars, pushes, written, calls, phase, crashed,
                 destroyed>>

\* _serviceThread = std::thread([this]() { serviceLoop(); });
\* Assigning to a std::thread that is still joinable calls std::terminate.
ConnectThread(t) ==
  /\ Live /\ pc[t] = "conn_thread"
  /\ IF serviceThread
     THEN /\ crashed' = TRUE
          /\ UNCHANGED <<serviceThread, svcVars, pc, urlArg>>
     ELSE /\ serviceThread' = TRUE
          /\ spc' = "check" /\ sctx' = 0 /\ swritten' = 0
          /\ batchCount' = 0 /\ batchBytes' = 0
          /\ Return(t)
          /\ urlArg' = [urlArg EXCEPT ![t] = <<>>]
          /\ crashed' = crashed
  /\ Disturb(t)
  /\ UNCHANGED <<state, running, context, wsi, queueVars, fragVars,
                 metricVars, lwsVars, after, msg, sends, parseRest,
                 urlVars, dispVars, timers, raised, rx, pushes, written,
                 calls, phase, destroyed>>

\* -------------------------------------------------------------- keep-alive
\* The intervals the application sets: pings off, and the default.
PingIntervals == {0, DefaultPingIntervalMs}

\* setPingInterval(intervalMs): _pingIntervalMs = static_cast<int>(...);
SetPingInterval(t, intervalMs) ==
  /\ CanCall(t)
  /\ pingIntervalMs' = intervalMs
  /\ Disturb(t)
  /\ UNCHANGED <<connVars, queueVars, fragVars, metricVars, lwsVars,
                 svcVars, callerVars, counterUnsigned, slotRead, callbackMutex,
                 setArg, handlerThrows, writable, pingPending,
                 lastPingTime, pingLatencyMs, now, pings, pongs, urlVars,
                 urlArg,
                 dispVars, timers, raised, rx, pushes, written, calls,
                 phase, crashed, destroyed>>

\* LWS_CALLBACK_TIMER on session w, whose timer has run out:
\* if (_state == OPEN && _pingIntervalMs > 0) { _pingPending = true;
\*   lws_callback_on_writable(wsi); lws_set_timer_usecs(wsi, ...); }
EvTimer ==
  /\ Live /\ spc = "service" /\ sctx \in ctxAlive
  /\ \E w \in SessionsOf(sctx, "open") \cap timers :
       IF state = OPEN /\ pingIntervalMs > 0
       THEN /\ pingPending' = TRUE
            /\ writable' = writable \cup {w}
            /\ timers' = timers
       ELSE /\ timers' = timers \ {w}
            /\ UNCHANGED <<pingPending, writable>>
  /\ UNCHANGED <<counterUnsigned, slotRead, callbackMutex, setArg,
                 handlerThrows,
                 pingIntervalMs, lastPingTime, pingLatencyMs, now, pings,
                 pongs>>
  /\ UNCHANGED <<connVars, queueVars, fragVars, metricVars, lwsVars,
                 svcVars, callerVars, urlVars, urlArg, dispVars, raised, rx,
                 histVars>>

\* LWS_CALLBACK_CLIENT_WRITEABLE on a session that was asked for it:
\* if (_pingPending.exchange(false)) { _lastPingTime = now();
\*   lws_write(wsi, ..., 0, LWS_WRITE_PING); }
EvWriteable ==
  /\ Live /\ spc = "service" /\ sctx \in ctxAlive
  /\ \E w \in SessionsOf(sctx, "open") \cap (writable \cup closeReq) :
       writable' = writable \ {w}
  /\ pingPending' = FALSE
  /\ IF pingPending
     THEN lastPingTime' = now /\ pings' = Append(pings, now)
     ELSE UNCHANGED <<lastPingTime, pings>>
  /\ UNCHANGED <<counterUnsigned, slotRead, callbackMutex, setArg,
                 handlerThrows,
                 pingIntervalMs, pingLatencyMs, now, pongs, timers>>
  /\ UNCHANGED <<connVars, queueVars, fragVars, metricVars, lwsVars,
                 svcVars, callerVars, urlVars, urlArg, dispVars, raised, rx,
                 histVars>>

\* A latency that forgets the send time.
LatencySinceStart(t2, t1) == t2
\* duration_cast<milliseconds>(now - _lastPingTime).count()
Latency(t2, t1) == t2 - t1

\* LWS_CALLBACK_CLIENT_RECEIVE_PONG: _pingLatencyMs.store(latency);
EvPong ==
  /\ Live /\ spc = "service" /\ sctx \in ctxAlive
  /\ SessionsOf(sctx, "open") # {}
  /\ pingLatencyMs' = Latency(now, lastPingTime)
  /\ pongs' = pongs + 1
  /\ UNCHANGED <<counterUnsigned, slotRead, callbackMutex, setArg,
                 handlerThrows,
                 pingIntervalMs, writable, pingPending, lastPingTime, now,
                 pings, timers>>
  /\ UNCHANGED <<connVars, queueVars, fragVars, metricVars, lwsVars,
                 svcVars, callerVars, urlVars, urlArg, dispVars, raised, rx,
                 histVars>>

\* std::chrono::steady_clock advances by one millisecond.
Tick ==
  /\ Live
  /\ now' = now + 1
  /\ UNCHANGED <<counterUnsigned, slotRead, callbackMutex, setArg,
                 handlerThrows,
                 pingIntervalMs, writable, pingPending, lastPingTime,
                 pingLatencyMs, pings, pongs, timers>>
  /\ UNCHANGED <<connVars, queueVars, fragVars, metricVars, lwsVars,
                 svcVars, callerVars, urlVars, urlArg, dispVars, raised, rx,
                 histVars>>

\* ---------------------------------------------------------------- setters
\* setOnOpen .. setOnClose(value): std::lock_guard lock(_callbackMutex);
\* the call waits for the lock and holds it for the assignment.
SetterLock(t, h, value) ==
  /\ CanCall(t) /\ callbackMutex = "free"
  /\ callbackMutex' = t
  /\ setArg' = [setArg EXCEPT ![t] = [h |-> h, value |-> value]]
  /\ Goto(t, "set_write")
  /\ Disturb(t)
  /\ UNCHANGED <<connVars, queueVars, fragVars, metricVars, lwsVars,
                 svcVars, after, msg, sends, counterUnsigned, slotRead,
                 handlerThrows,
                 pingRest, urlVars, urlArg, dispVars, timers, raised, rx,
                 pushes,
                 written, calls, phase, crashed, destroyed>>

\* _onX = value; and the lock is released as the setter returns.
SetterWrite(t) ==
  /\ Live /\ pc[t] = "set_write" /\ callbackMutex = t
  /\ slots' = IF setArg[t].value THEN slots \cup {setArg[t].h}
              ELSE slots \ {setArg[t].h}
  /\ callbackMutex' = "free"
  /\ setArg' = [setArg EXCEPT ![t] = NoArg]
  /\ Return(t)
  /\ Disturb(t)
  /\ UNCHANGED <<connVars, queueVars, fragmentBuffer, fragmentCapacity,
                 fragmentIsBinary,
                 metricVars, lwsVars, svcVars, after, msg, sends,
                 counterUnsigned, slotRead, handlerThrows, pingRest,
                 urlVars, urlArg,
                 dispVars, timers, raised, rx, pushes, written, calls,
                 phase, crashed, destroyed>>

\* getOnOpen .. getOnClose: { return _onX; }  The slot is copied without
\* a lock; a copy made while a setter is assigning the same slot is a data
\* race, which may crash or pass unnoticed.
Getter(t, h) ==
  /\ CanCall(t)
  /\ LET racing == \E u \in Threads \ {t} :
                      pc[u] = "set_write" /\ setArg[u].h = h
     IN /\ slotRead' = [h |-> h, locked |-> callbackMutex = t,
                        racing |-> racing]
        /\ crashed' \in IF racing THEN BOOLEAN ELSE {crashed}
  /\ Disturb(t)
  /\ UNCHANGED <<connVars, queueVars, fragVars, metricVars, lwsVars,
                 svcVars, callerVars, counterUnsigned, callbackMutex,
                 setArg, handlerThrows, pingRest, urlVars, urlArg,
                 dispVars, timers, raised, rx, pushes, written, calls,
                 phase, destroyed>>

\* The application's handlers start or stop throwing.
HandlerBehaviour ==
  /\ Live
  /\ handlerThrows' = ~handlerThrows
  /\ UNCHANGED <<connVars, queueVars, fragVars, metricVars, lwsVars,
                 svcVars, callerVars, counterUnsigned, slotRead, callbackMutex,
                 setArg, pingRest, urlVars, urlArg, dispVars, timers, raised,
                 rx,
                 histVars>>

\* ---------------------------------------------------------- specification
\* The steps of the service thread other than an inbound data event.
ServiceStep ==
  \/ ServiceLoopCheck \/ EvEstablished \/ EvConnectionError \/ EvClosed
  \/ ServiceReturn \/ DrainBegin \/ BatchNext \/ Write \/ AfterWrite

\* The steps inside send / sendBinary after the state check.
SendStep(t) ==
  SendLock(t) \/ SendPush(t) \/ SendWake(t) \/ SendCancel(t) \/ Unwind(t)

CloseStep(t) ==
  \/ CloseCheck(t) \/ CloseReturn(t) \/ CloseSet(t) \/ CloseFrame(t)
  \/ CloseStop(t)

CleanupStep(t) ==
  \/ CleanupStop(t) \/ CleanupJoinable(t) \/ CleanupJoin(t)
  \/ CleanupDestroy(t) \/ CleanupNull(t) \/ CleanupState(t)
  \/ CleanupQueueLock(t) \/ CleanupQueue(t) \/ CleanupFragment(t)

\* The steps of connect after its cleanup; the transport engine creates at
\* most maxConnects contexts and sessions.
ConnectStep(t, maxConnects) ==
  \/ ConnectState(t)
  \/ \E created \in BOOLEAN :
       (created => nextCtx <= maxConnects) /\ ConnectContext(t, created)
  \/ \E created \in BOOLEAN :
       (created => nextWsi <= maxConnects) /\ ConnectSession(t, created)
  \/ ConnectRun(t) \/ ConnectThread(t)

\* Spec: the life cycle.  Every operation, with connect calls one at a
\* time, a few sends and inbound frames.
Next ==
  \/ ServiceStep
  \/ recvd < LifeRecv /\ EvReceive
  \/ \E t \in Threads :
       \/ \E len \in 1..LifeLen, isBinary \in BOOLEAN :
            (sends < LifeSends \/ state # OPEN)
            /\ SendCheck(t, len, isBinary)
       \/ SendStep(t) \/ CloseStep(t) \/ CleanupStep(t)
       \/ Connect(t) \/ ConnectStep(t, LifeConnects) \/ Destructor(t)

Spec == Init /\ [][Next]_vars

\* SpecQueue: the send queue.  Several sends of several lengths against the
\* service loop, the owner calling send and the other thread sendBinary,
\* around connects whose session the transport engine always creates.
NextQueue ==
  \/ ServiceStep
  \/ \E t \in Threads :
       \/ \E len \in Lens :
            (sends < MaxSends \/ state # OPEN)
            /\ SendCheck(t, len, t # Owner)
       \/ SendStep(t) \/ CleanupStep(t) \/ Connect(t)
       \/ ConnectState(t) \/ ConnectRun(t) \/ ConnectThread(t)
       \/ ConnectContext(t, nextCtx <= LifeConnects)
       \/ nextWsi <= LifeConnects /\ ConnectSession(t, TRUE)

SpecQueue == Init /\ [][NextQueue]_vars

\* SpecOverlap: connect called again while a connect is still in progress.
NextOverlap ==
  \/ ServiceLoopCheck \/ EvEstablished \/ EvConnectionError \/ EvClosed
  \/ ServiceReturn \/ DrainBegin \/ BatchNext
  \/ \E t \in Threads :
       \/ Connect(t) \/ ConnectOverlapping(t) \/ Unwind(t)
       \/ CleanupStep(t) \/ ConnectStep(t, MaxConnects)

SpecOverlap == Init /\ [][NextOverlap]_vars

\* SpecUrl: connect called by the owner with every URL made of a scheme
\* prefix, whole or cut short, and a short tail, before and after a
\* connection is established.
UrlChars == {"a", "1", ":", "/", "?"}
Tails == UNION {[1..n -> UrlChars] : n \in 0..MaxTail}
Schemes == {WssPrefix, WsPrefix, <<"w", "s", ":", "/">>, <<>>}
Urls == {scheme \o tail : scheme \in Schemes, tail \in Tails}

NextUrl ==
  \/ ServiceLoopCheck \/ EvEstablished \/ ServiceReturn \/ DrainBegin
  \/ BatchNext
  \/ \E u \in Urls : ConnectBegin(Owner, u)
  \/ Unwind(Owner) \/ CleanupStep(Owner)
  \/ ConnectStep(Owner, LifeConnects)

SpecUrl == Init /\ [][NextUrl]_vars

\* SpecDispatch: the dispatch of transport events to the handlers.  One
\* connection, its inbound frames and terminal event, handlers that throw
\* or not, and the other thread setting and clearing the two message
\* handlers while the service thread is inside lws_service.
SetHandlers == {"onMessage", "onBinaryMessage"}

NextDispatch ==
  \/ ServiceLoopCheck \/ EvEstablished \/ EvConnectionError \/ EvClosed
  \/ ServiceReturn \/ DrainBegin \/ BatchNext
  \/ recvd < MaxRecv /\ EvReceive
  \/ spc = "service" /\ HandlerBehaviour
  \/ \E t \in Threads \ {Owner} :
       \/ \E h \in SetHandlers, value \in BOOLEAN :
            spc = "service" /\ SetterLock(t, h, value)
       \/ SetterWrite(t)
  \/ nextCtx <= LifeConnects /\ ConnectBegin(Owner, WsPrefix \o <<"a">>)
  \/ CleanupStop(Owner) \/ CleanupJoinable(Owner) \/ CleanupDestroy(Owner)
  \/ CleanupNull(Owner) \/ CleanupState(Owner) \/ CleanupQueueLock(Owner)
  \/ CleanupQueue(Owner) \/ CleanupFragment(Owner)
  \/ ConnectState(Owner) \/ ConnectRun(Owner) \/ ConnectThread(Owner)
  \/ ConnectContext(Owner, TRUE) \/ ConnectSession(Owner, TRUE)

SpecDispatch == Init /\ [][NextDispatch]_vars

\* SpecParse: parseUrl alone.  connect is called with every URL made of a
\* scheme prefix, whole or cut short, and a tail of up to MaxParseTail
\* characters, on a connection that has not stored a host yet.
ParseInputs ==
  {scheme \o tail :
     scheme \in Schemes,
     tail \in UNION {[1..n -> UrlChars] : n \in 0..MaxParseTail}}

NextParse ==
  \/ \E u \in ParseInputs : host = <<>> /\ ConnectBegin(Owner, u)
  \/ Unwind(Owner)

SpecParse == Init /\ [][NextParse]_vars

\* SpecSlots: the handler slots.  One connection with an inbound frame;
\* while the service thread is inside lws_service the other thread sets and
\* clears every slot and the owner reads them.
NextSlots ==
  \/ ServiceLoopCheck \/ EvEstablished \/ ServiceReturn \/ DrainBegin
  \/ BatchNext
  \/ recvd < LifeRecv /\ EvReceive
  \/ \E h \in Handlers :
       /\ spc = "service"
       /\ \/ \E value \in BOOLEAN : SetterLock("t2", h, value)
          \/ Getter(Owner, h)
  \/ SetterWrite("t2")
  \/ nextCtx <= LifeConnects /\ ConnectBegin(Owner, WsPrefix \o <<"a">>)
  \/ CleanupStop(Owner) \/ CleanupJoinable(Owner) \/ CleanupDestroy(Owner)
  \/ CleanupNull(Owner) \/ CleanupState(Owner) \/ CleanupQueueLock(Owner)
  \/ CleanupQueue(Owner) \/ CleanupFragment(Owner)
  \/ ConnectState(Owner) \/ ConnectRun(Owner) \/ ConnectThread(Owner)
  \/ ConnectContext(Owner, TRUE) \/ ConnectSession(Owner, TRUE)

SpecSlots == Init /\ [][NextSlots]_vars

\* SpecClose: one connection and one close().  The owner connects once, the
\* other thread calls close() once, after connect has returned, on the
\* connection in CONNECTING or OPEN, and no call follows; lws_service never
\* fails and the peer does not close on its own.  The service thread and
\* the calls in progress keep taking their steps, and the transport engine
\* completes the connection attempt and a requested close handshake if it
\* is pumped again and again.
CloseHandshake ==
  EvClosed /\ \E w \in closeReq : sess[w] = "open" /\ sess'[w] = "closed"

ServiceOk == ServiceReturn /\ spc' = "drain"

LoopStep == ServiceLoopCheck \/ ServiceOk \/ DrainBegin \/ BatchNext

CloseCall ==
  \/ /\ state \in {CONNECTING, OPEN} /\ phase = "live"
     /\ pc[Owner] = "idle"
     /\ CloseCheck("t2")
  \/ CloseSet("t2") \/ CloseFrame("t2") \/ CloseStop("t2")

ConnectCall ==
  \/ nextCtx <= LifeConnects /\ ConnectBegin(Owner, WsPrefix \o <<"a">>)
  \/ CleanupStop(Owner) \/ CleanupJoinable(Owner) \/ CleanupDestroy(Owner)
  \/ CleanupNull(Owner) \/ CleanupState(Owner) \/ CleanupQueueLock(Owner)
  \/ CleanupQueue(Owner) \/ CleanupFragment(Owner)
  \/ ConnectState(Owner) \/ ConnectRun(Owner) \/ ConnectThread(Owner)
  \/ ConnectContext(Owner, TRUE) \/ ConnectSession(Owner, TRUE)

NextClose ==
  \/ LoopStep
  \/ EvEstablished \/ CloseHandshake
  \/ recvd < MaxRecv /\ EvReceive
  \/ CloseCall
  \/ ConnectCall

SpecClose ==
  /\ Init /\ [][NextClose]_vars
  /\ WF_vars(LoopStep) /\ WF_vars(CloseCall) /\ WF_vars(ConnectCall)
  /\ SF_vars(EvEstablished) /\ SF_vars(CloseHandshake)

\* SpecDrain: the drain against senders that never stop.  The connection is
\* opened once and stays OPEN, lws_service never fails; the owner sends
\* DrainSends numbered messages and the other thread calls sendBinary again
\* and again.  Every thread keeps taking its steps; the transport engine
\* establishes the connection and accepts a complete write if asked again
\* and again, and the try_to_lock of the drain gets the lock if it finds it
\* free again and again.
CompleteWrite ==
  Write /\ sendQueue # <<>> /\ swritten' = Head(sendQueue).len

DrainLocked == DrainBegin /\ sendMutex' = "svc"

DrainStep == LoopStep \/ Write \/ AfterWrite

NextDrain ==
  \/ DrainStep
  \/ EvEstablished
  \/ ConnectCall
  \/ sends < DrainSends /\ state = OPEN /\ SendCheck(Owner, 1, FALSE)
  \/ pushes < DrainPushes /\ state = OPEN /\ SendUntracked("t2", 1, TRUE)
  \/ \E t \in Threads : SendStep(t)

SpecDrain ==
  /\ Init /\ [][NextDrain]_vars
  /\ WF_vars(DrainStep) /\ WF_vars(ConnectCall)
  /\ \A t \in Threads : WF_vars(SendStep(t))
  /\ SF_vars(EvEstablished) /\ SF_vars(CompleteWrite) /\ SF_vars(DrainLocked)


\* SpecPing: the keep-alive.  One connection, the other thread changing the
\* ping interval at any time, timer, writable and pong events, and the
\* clock.
NextPing ==
  \/ ServiceLoopCheck \/ EvEstablished \/ ServiceReturn \/ DrainBegin
  \/ BatchNext
  \/ Len(pings) < MaxPings /\ EvTimer
  \/ EvWriteable
  \/ pongs < MaxPongs /\ EvPong
  \/ now < MaxNow /\ Tick
  \/ \E intervalMs \in PingIntervals :
       SetPingInterval("t2", intervalMs)
  \/ nextCtx <= LifeConnects /\ ConnectBegin(Owner, WsPrefix \o <<"a">>)
  \/ CleanupStop(Owner) \/ CleanupJoinable(Owner) \/ CleanupDestroy(Owner)
  \/ CleanupNull(Owner) \/ CleanupState(Owner) \/ CleanupQueueLock(Owner)
  \/ CleanupQueue(Owner) \/ CleanupFragment(Owner)
  \/ ConnectState(Owner) \/ ConnectRun(Owner) \/ ConnectThread(Owner)
  \/ ConnectContext(Owner, TRUE) \/ ConnectSession(Owner, TRUE)

SpecPing == Init /\ [][NextPing]_vars

\* ----------------------------------------------------------------- claims
\* C1 (SpecQueue): the messages written completely to the transport appear
\* in the order in which they were enqueued, each one once, and the
\* messages of one producer appear in the order of that producer's calls.
C1_FifoWriteOrder ==
  \A i, j \in 1..Len(written) :
    i < j => /\ written[i].e < written[j].e
             /\ written[i].src = written[j].src
                => written[i].k < written[j].k

\* Two producers' messages were written, the one whose call began later
\* having been enqueued, and written, first.
C1_Witness ==
  /\ Len(written) >= 2
  /\ written[1].src # written[2].src
  /\ written[1].k > written[2].k

\* C2 (Spec): a send or sendBinary call made while the state is not OPEN
\* throws NotOpen and never reaches the queue: the step that reads the state
\* and the unwinding of the exception leave the queue, the byte counter and
\* the metrics as they were, and the thread returns without the wake-up.
C2_NotOpenRejected ==
  [][\A t \in Threads :
       /\ (pc[t] = "idle" /\ pc'[t] \in {"NotOpen", "send_lock"})
          => IF state # OPEN
             THEN pc'[t] = "NotOpen" /\ UNCHANGED <<queueVars, metricVars>>
             ELSE pc'[t] = "send_lock"
       /\ (pc[t] = "NotOpen" /\ pc'[t] # "NotOpen")
          => pc'[t] = "idle" /\ UNCHANGED <<queueVars, metricVars>>]_vars

\* A send was rejected while the connection was CLOSING with a message
\* still in the queue.
C2_Witness ==
  \E t \in Threads :
    pc[t] = "NotOpen" /\ state = CLOSING /\ sendQueue # <<>>

\* C3 (SpecQueue): the queue never holds more than MAX_QUEUE_SIZE messages
\* nor more than MAX_QUEUE_BYTES bytes of payload, a send that would exceed
\* either limit having failed with QueueFull.
C3_QueueWithinLimits ==
  /\ Len(sendQueue) <= MAX_QUEUE_SIZE
  /\ SumLen(sendQueue) <= MAX_QUEUE_BYTES

\* C4 (SpecQueue): whenever the send-queue lock is free, the byte counter
\* equals the sum of the payload lengths of the queued messages.
C4_CounterMatchesQueue ==
  sendMutex = "free" => queueBytes = SumLen(sendQueue)

\* C5 (Spec): the state changes only along the lifecycle edges: to
\* CONNECTING by connect, CONNECTING to OPEN, CONNECTING or OPEN to CLOSING,
\* and from any state to CLOSED; never CLOSING or CLOSED to OPEN, never
\* CLOSED to CLOSING.
C5_LifecycleEdges ==
  [][state' # state =>
       \/ state' = CONNECTING /\ \E t \in Threads : pc[t] = "conn_state"
       \/ state = CONNECTING /\ state' = OPEN
       \/ state \in {CONNECTING, OPEN} /\ state' = CLOSING
       \/ state' = CLOSED]_vars

\* What close() acts on: the fields of the connection, the queue, the
\* fragment buffer and handlers, the metrics and the transport engine.
CloseEffects ==
  <<connVars, queueVars, fragVars, metricVars, lwsVars, svcVars>>

C7_ClosedAndEmptyAfterTeardown ==
  phase = "torn" =>
    state = CLOSED /\ sendQueue = <<>> /\ queueBytes = 0

\* The steps of cleanup that release the session, the queue and the
\* fragment buffer.
ReleasePcs == {"cl_destroy", "cl_null", "cl_state", "cl_qlock", "cl_queue",
               "cl_frag"}

\* C8 (Spec): teardown has joined the service thread before it releases the
\* session, the queue or the fragment buffer, and no handler is invoked
\* once a teardown has begun.
C8_NoHandlerAfterTeardownBegins ==
  /\ [](\A t \in Threads :
          pc[t] \in ReleasePcs => ~serviceThread /\ spc = "none")
  /\ [][calls' # calls
          => \A t \in Threads : pc[t] \notin CleanupPcs]_vars

\* The state a cleanup leaves behind.
CleanupPost ==
  /\ state = CLOSED /\ ~running
  /\ ~serviceThread /\ spc = "none"
  /\ context = 0 /\ wsi = 0 /\ ctxAlive = {}
  /\ sendQueue = <<>> /\ queueBytes = 0
  /\ fragmentBuffer = <<>>

\* A step of cleanup taken by thread t.
CleanupStepOf(t) ==
  /\ pc'[t] # pc[t]
  /\ \/ pc[t] \in CleanupPcs \cup {"cl_stop"}
     \/ pc[t] = "idle" /\ pc'[t] = "cl_joinable"

LiveSessions == {w \in WsiIds : ValidWsi(w)}

\* C10 (SpecOverlap): connects are serialized: at most one service loop and
\* at most one session exist at any time, and connect starts its service
\* loop only when the previous one has been joined.
C10_ConnectsSerialized ==
  /\ [](Cardinality(LiveSessions) <= 1)
  /\ [][\A t \in Threads :
          (pc[t] = "conn_thread" /\ (pc'[t] # pc[t] \/ crashed'))
            => ~serviceThread]_vars

\* C20: the four counters never decrease, and outside the window between a
\* complete write and its bookkeeping messagesSent is the number of
\* completely written messages and bytesSent the sum of their lengths.
C20_CountersCountWrites ==
  /\ [](spc # "relock" => /\ messagesSent = Len(written)
                          /\ bytesSent = SumLen(written))
  /\ [][/\ messagesSent' >= messagesSent
        /\ bytesSent' >= bytesSent
        /\ messagesReceived' >= messagesReceived
        /\ bytesReceived' >= bytesReceived]_vars

\* Nothing is in progress: the loop was told to stop and has returned, and
\* every caller is idle, so no transport event is raised until the
\* application calls in again.
Quiescent ==
  /\ \A t \in Threads : pc[t] = "idle"
  /\ ~running /\ spc \in {"none", "exited"}

\* The attempts still waiting for their terminal event.
PendingAttempts == {w \in WsiIds : sess[w] \in {"connecting", "open"}}

\* The terminal event of attempt w is raised in this step.
TerminalEvent(w) ==
  /\ sess[w] \in {"connecting", "open"}
  /\ sess'[w] \in {"failed", "closed"}

\* C11: every connection attempt gets its terminal transport event, which
\* sets the state to CLOSED and fires onError (error) or onClose (closed)
\* exactly once; no attempt is left without it once the connection has come
\* to rest, also when close() was called first.
C11_TerminalEventOncePerAttempt ==
  /\ [](Quiescent => PendingAttempts = {})
  /\ [][\A w \in WsiIds :
          TerminalEvent(w) => state' = CLOSED /\ calls' = calls + 1]_vars

\* C12: a connect call whose URL fails parsing throws InvalidUrl and has no
\* side effect: the state, the stored url, host, port, path and TLS flag,
\* the service loop, the session and the send queue are as before the call.
C12_InvalidUrlNoSideEffect ==
  [][\A t \in Threads :
       (pc[t] = "idle" /\ pc'[t] = "InvalidUrl")
       => UNCHANGED <<connVars, urlVars, queueVars, svcVars, lwsVars>>]_vars

\* C13: no lock of the connection (callback lock, fragment-buffer lock,
\* send-queue lock) is held at the moment any of the five handlers is
\* invoked.
C13_NoLockHeldInHandler ==
  [][calls' # calls => held' = {} /\ sendMutex # "svc"]_vars

\* A final frame completes a fragmented message in this step.
FinalFragment == \E w \in WsiIds : rx[w] # NoRx /\ rx'[w] = NoRx
\* A frame that is first and final fragment arrives in this step.
SingleFrame == raised' # raised /\ rx' = rx
\* The message raised in this step, as a handler call.
RaisedCall ==
  [h |-> raised'[Len(raised')].h, data |-> raised'[Len(raised')].data]

C15_FragmentsDeliveredOnce ==
  [][/\ (FinalFragment /\ SetHandlers \subseteq slots)
          => /\ delivered' = Append(delivered, RaisedCall)
             /\ calls' = calls + 1
     /\ (recvd' # recvd /\ raised' = raised) => calls' = calls]_vars

\* C16: a frame that is both first and final fragment makes exactly one
\* call, to the handler of its own binary flag (when set) with its payload,
\* and leaves the fragment buffer and the captured flag as they were.
C16_SingleFrameDirect ==
  [][(SingleFrame /\ raised'[Len(raised')].set)
       => /\ delivered' = Append(delivered, RaisedCall)
          /\ calls' = calls + 1
          /\ UNCHANGED <<fragmentBuffer, fragmentIsBinary>>]_vars

\* The calls owed for the complete messages raised while their handler's
\* slot was set, in the order raised.
RECURSIVE CallsOwed(_)
CallsOwed(r) ==
  IF r = <<>> THEN <<>>
  ELSE LET m == Head(r) IN
       (IF m.set THEN <<[h |-> m.h, data |-> m.data]>> ELSE <<>>)
       \o CallsOwed(Tail(r))

\* C17: every complete inbound message that arrived while its handler's slot
\* was set has been delivered exactly once, in the order raised, whatever
\* another thread does with the setters meanwhile.
C17_EveryMessageDelivered == delivered = CallsOwed(raised)

\* The recurring ping timer of the current session is armed.
PingTimerArmed == wsi \in timers /\ ValidWsi(wsi)

\* C18: whenever the state is OPEN and pingIntervalMs > 0, a recurring ping
\* timer is armed, whatever the order of the setPingInterval calls and the
\* established event.
C18_PingTimerArmedWhileOpen ==
  (state = OPEN /\ pingIntervalMs > 0) => PingTimerArmed

\* C19: a pong at time T2 stores T2 minus the send time of the most recently
\* written ping in pingLatencyMs, in place of the previous value; a writable
\* event writes at most one ping, stamped with the time of the write,
\* however many timer events came before it.
C19_LatencyOfLastPing ==
  [][/\ (pongs' # pongs /\ pings # <<>>)
          => pingLatencyMs' = now - pings[Len(pings)]
     /\ pings' # pings
          => /\ pings' = Append(pings, now)
             /\ pingPending /\ ~pingPending']_vars

\* Two pings were written at different times and two pongs received; the
\* gauge holds the latency of the second ping alone.
C19_Witness ==
  /\ Len(pings) = 2 /\ pings[1] < pings[2] /\ pings[1] > 0
  /\ pongs = 2
  /\ pingLatencyMs = now - pings[2] /\ pingLatencyMs > 0

\* The reference URL syntax: ws://host[:port][/path] or wss://..., the host
\* being the characters up to the first ':', '/' or '?' (a '?' ends the host
\* and leaves the path "/"), the port a string of digits.
RefHostChars(str) ==
  LET stops == {i \in 1..Len(str) : str[i] \in {":", "/", "?"}}
  IN IF stops = {} THEN Len(str)
     ELSE (CHOOSE i \in stops : \A j \in stops : i <= j) - 1
RefUpToSlash(str) ==
  LET slashes == {i \in 1..Len(str) : str[i] = "/"}
  IN IF slashes = {} THEN Len(str)
     ELSE (CHOOSE i \in slashes : \A j \in slashes : i <= j) - 1
RefIsInteger(str) ==
  str # <<>> /\ \A i \in 1..Len(str) : IsDigit(str[i])
RefPath(str) == IF str # <<>> /\ Head(str) = "/" THEN str ELSE <<"/">>
RefFail == [ok |-> FALSE, tls |-> FALSE, host |-> <<>>, port |-> 0,
            path |-> <<>>]
RefAfterScheme(tls, rest) ==
  LET n == RefHostChars(rest)
      h == SubSeq(rest, 1, n)
      tail == SubSeq(rest, n + 1, Len(rest))
  IN IF h = <<>> THEN RefFail
     ELSE IF tail # <<>> /\ Head(tail) = ":"
          THEN LET seg == SubSeq(tail, 2, RefUpToSlash(tail))
               IN IF RefIsInteger(seg)
                  THEN [ok |-> TRUE, tls |-> tls, host |-> h,
                        port |-> LeadingNumber(seg, 0),
                        path |-> RefPath(SubSeq(tail, Len(seg) + 2,
                                                Len(tail)))]
                  ELSE RefFail
          ELSE [ok |-> TRUE, tls |-> tls, host |-> h,
                port |-> IF tls THEN 443 ELSE 80, path |-> RefPath(tail)]
Reference(u) ==
  IF StartsWith(u, WssPrefix)
  THEN RefAfterScheme(TRUE, SubSeq(u, 7, Len(u)))
  ELSE IF StartsWith(u, WsPrefix)
       THEN RefAfterScheme(FALSE, SubSeq(u, 6, Len(u)))
       ELSE RefFail

\* C21: for every URL the parser agrees with the reference: a URL of the
\* reference syntax is accepted with the reference's TLS flag, host, port
\* and path, and every other string fails with InvalidUrl.
C21_ParserAgreesWithReference ==
  [][\A t \in Threads :
       (pc[t] = "idle" /\ pc'[t] \in {"cl_stop", "InvalidUrl"})
       => LET ref == Reference(urlArg'[t]) IN
          IF ref.ok
          THEN /\ pc'[t] = "cl_stop"
               /\ useSsl' = ref.tls /\ host' = ref.host
               /\ port' = ref.port /\ path' = ref.path
          ELSE pc'[t] = "InvalidUrl"]_vars

\* C22: every read and every write of a handler slot is made with the
\* callback lock held: a getter's read, a setter's write, the dispatch's
\* read on the I/O thread; so no slot is read while another thread is
\* writing it.
C22_SlotsUnderCallbackLock ==
  /\ [](slotRead.h # "none" => slotRead.locked /\ ~slotRead.racing)
  /\ [][/\ slots' # slots
             => \E t \in Threads : callbackMutex = t /\ pc[t] = "set_write"
        /\ calls' # calls => callbackMutex = "free"]_vars

\* C23: no caller uses the transport context or session after cleanup has
\* destroyed it: the wake-up of send / sendBinary is made on a live context,
\* the close-frame request of close() on a live session.
C23_NoUseAfterDestroy ==
  [][\A t \in Threads :
       /\ (pc[t] = "send_cancel" /\ pc'[t] # pc[t]) => context \in ctxAlive
       /\ (pc[t] = "close_frame" /\ pc'[t] # pc[t] /\ wsi # 0)
            => wctx[wsi] \in ctxAlive]_vars

\* The service thread books the write it has just made.
BooksWrite == spc = "relock" /\ spc' # "relock" /\ sendQueue # <<>>

\* C24: in a drain the front message leaves the queue, and queueBytes,
\* messagesSent and bytesSent move by its payload length, only when its
\* write was complete; after a short or failed write the four are unchanged,
\* the batch is abandoned, and the message stays at the front for the next
\* drain.
C24_DrainBooksCompleteWritesOnly ==
  [][/\ BooksWrite
          => LET size == Head(sendQueue).len IN
             IF swritten = size
             THEN /\ sendQueue' = Tail(sendQueue)
                  /\ queueBytes' = queueBytes - size
                  /\ messagesSent' = messagesSent + 1
                  /\ bytesSent' = bytesSent + size
             ELSE /\ UNCHANGED <<sendQueue, queueBytes, messagesSent,
                                 bytesSent>>
                  /\ spc' = "check"
     /\ (Len(sendQueue') < Len(sendQueue)
         /\ \A t \in Threads : pc[t] # "cl_queue")
          => BooksWrite /\ swritten = Head(sendQueue).len
     /\ (messagesSent' # messagesSent \/ bytesSent' # bytesSent)
          => BooksWrite /\ swritten = Head(sendQueue).len]_vars

\* A caller's enqueue that happens between the unlock before a write and
\* the lock after it.
PushDuringWrite ==
  /\ spc \in {"write", "relock"}
  /\ \E t \in Threads : pc[t] = "send_push" /\ pc'[t] = "send_wake"

\* C25: the service thread does not hold the send-queue lock while a write
\* is in progress, and an enqueue made by a caller during the write leaves
\* the front of the queue as it was.
C25_NoLockAcrossWrite ==
  /\ [](spc = "write" => sendMutex # "svc")
  /\ [][PushDuringWrite
          => /\ sendQueue # <<>>
             /\ Len(sendQueue') = Len(sendQueue) + 1
             /\ Head(sendQueue') = Head(sendQueue)]_vars

\* A caller holds the lock for its enqueue while the write of the front
\* message, with an earlier one queued behind it, is in progress.
C25_Witness ==
  /\ spc = "write" /\ Len(sendQueue) = 2
  /\ \E t \in Threads : pc[t] = "send_push" /\ sendMutex = t

\* The service thread is at one of its two acquisitions of the send-queue
\* lock: the try_to_lock that opens a drain, the lock after a write.
AtAcquisition == Live /\ spc \in {"drain", "relock"}

\* C26: the service loop never waits for the send-queue lock: at each of
\* its acquisitions, when a caller holds the lock, the loop can still take
\* its next step.
C26_LoopNeverWaitsForLock ==
  (AtAcquisition /\ sendMutex # "free") => ENABLED (DrainBegin \/ AfterWrite)

\* A fragmented message is in flight: a session that is open has received
\* the first fragment of a message and not yet its final one.
InFlight == \E w \in WsiIds : sess[w] = "open" /\ rx[w] # NoRx

\* The fragment buffer holds no bytes and no allocation.
BufferReleased == fragmentBuffer = <<>> /\ fragmentCapacity = 0

\* C27: the fragment buffer has zero length and zero capacity in every
\* state in which no fragmented message is in flight, in particular after
\* each final-fragment delivery, when close() returns and when cleanup
\* returns.
C27_FragmentBufferReleased ==
  /\ [](~InFlight => BufferReleased)
  /\ [][/\ FinalFragment => BufferReleased'
        /\ \A t \in Threads :
             /\ (pc[t] = "close_stop" /\ pc'[t] # pc[t]) => BufferReleased'
             /\ (pc[t] = "cl_frag" /\ pc'[t] # pc[t]) => BufferReleased']_vars

\* The service thread is in its loop.
LoopRunning == spc \notin {"none", "exited"}

\* C28: whenever the state is OPEN the service loop is running; the loop
\* does not stop, by the stop flag or by a service error, and leave the
\* state OPEN.
C28_OpenHasServiceLoop == state = OPEN => LoopRunning

\* C29 (SpecClose): after close() was called in CONNECTING or OPEN and no
\* further call is made, the state does not remain CLOSING: it eventually
\* becomes CLOSED.
C29_ClosingReachesClosed == (state = CLOSING) ~> (state = CLOSED)

\* Caller t's send finishes its limit check on an empty queue of an OPEN
\* connection.
SendOnEmptyQueue(t) ==
  /\ pc[t] = "send_push" /\ pc'[t] # pc[t]
  /\ state = OPEN /\ sendQueue = <<>>

\* C30: in OPEN with the send queue empty the next send or sendBinary is
\* accepted, not refused with QueueFull, whatever was enqueued and written
\* before; the queue-byte counter never goes below zero.
C30_BackpressureReleased ==
  /\ [](queueBytes >= 0)
  /\ [][\A t \in Threads :
          SendOnEmptyQueue(t)
            => pc'[t] # "QueueFull" /\ Len(sendQueue') = 1]_vars

\* The numbered message k is in the send queue: its send was accepted.
Accepted(k) == \E i \in 1..Len(sendQueue) : sendQueue[i].k = k
\* The numbered message k was written completely to the transport engine.
WrittenOut(k) == \E i \in 1..Len(written) : written[i].k = k

\* C31 (SpecDrain): while the connection stays OPEN, the loop keeps running
\* and the engine eventually accepts complete writes, every message accepted
\* by send is eventually written to the transport engine, even while another
\* thread keeps calling sendBinary.
C31_AcceptedEventuallyWritten ==
  \A k \in 1..DrainSends : Accepted(k) ~> WrittenOut(k)

====
